---- MODULE Spec2Model ----
(***************************************************************************)
(* Model of app/static/js/auth-validation.js: the three field watchers     *)
(* that the DOMContentLoaded handler attaches (debounced username          *)
(* availability check, email format check on blur, password confirmation   *)
(* check) and the createFeedbackElement helper they share; and of          *)
(* build.sh, the script that installs the application's dependencies.      *)
(*                                                                         *)
(* Strings are sequences of one-character strings, so that trim() and the  *)
(* regular expression are computed character by character.                 *)
(***************************************************************************)
EXTENDS Naturals, Integers, Sequences, FiniteSets, TLC

\* ------------------------------------------------------------------ bounds
MaxLen == 3          \* longest username typed into the field, blanks around it aside
MaxTimerId == 2      \* timers scheduled in one run (their ids are 1..MaxTimerId)
MaxRequests == 2     \* requests issued in one run
MaxUncaught == 2     \* uncaught exceptions reported in one run
MaxEmailLen == 6     \* longest email value of the exhaustive email runs
MaxPwLen == 2        \* longest password / confirmation value
MaxExitCode == 15    \* largest exit status a command of build.sh returns

\* ------------------------------------------------------- program constants
MinUsernameLen == 3

SuccessColor == "#198754"
ErrorColor == "#dc3545"
AvailableText == "Username is available"
TakenText == "Username is already taken"
InvalidEmailText == "Please enter a valid email address"
NoMatchText == "Passwords do not match"
MatchText == "Passwords match"

UsernameFeedbackId == "username-feedback"
EmailFeedbackId == "email-feedback"
ConfirmFeedbackId == "confirm-password-feedback"
FeedbackClass == "form-text"

\* ----------------------------------------------------------------- strings
Whitespace == {" "}
UsernameChars == {"a", " "}
EmailChars == {"a", "@", ".", " "}
PwChars == {"a", "b"}

SeqsUpTo(S, n) == UNION {[1..k -> S] : k \in 0..n}

\* Usernames of full length written between two blanks: what trim() makes of
\* them is again a username of full length
PaddedUsernames ==
    { <<" ">> \o w \o <<" ">> :
        w \in { v \in [1..MaxLen -> UsernameChars] :
                  v[1] \notin Whitespace /\ v[MaxLen] \notin Whitespace } }

UsernameInputs == SeqsUpTo(UsernameChars, MaxLen) \cup PaddedUsernames
EmailStrings == SeqsUpTo(EmailChars, MaxEmailLen)
PwInputs == SeqsUpTo(PwChars, MaxPwLen)

\* The values typed in the runs that interleave the three watchers: for each
\* field values its check accepts and values it rejects.
TypedUsernames ==
    { <<" ", "a", "a">>, <<"a", "a", "a">> }
TypedEmails ==
    { <<>>, <<" ", "a", "@", "a", ".", "a", " ">>, <<"a", "@", "a">> }
TypedPasswords ==
    { <<>>, <<"a">> }

RECURSIVE TrimStart(_)
TrimStart(s) ==
    IF s # <<>> /\ Head(s) \in Whitespace THEN TrimStart(Tail(s)) ELSE s

RECURSIVE TrimEnd(_)
TrimEnd(s) ==
    IF s # <<>> /\ s[Len(s)] \in Whitespace
    THEN TrimEnd(SubSeq(s, 1, Len(s) - 1))
    ELSE s

\* String.prototype.trim
Trim(s) == TrimEnd(TrimStart(s))

\* ------------------------------------------------------------------- state
VARIABLES
    page,             \* which elements the page holds (fixed after load)
    usernameValue,    \* usernameInput.value
    emailValue,       \* emailInput.value
    passwordValue,    \* passwordInput.value
    confirmValue,     \* confirmPasswordInput.value
    usernameTimeout,  \* the closure variable: 0 is undefined, else a timer id
    timers,           \* the environment's active timers: {[id, username]}
    inflight,         \* fetches issued and not yet settled, in issue order
    issued,           \* number of fetches issued so far
    responses,        \* what the settled fetches delivered, in order of arrival
    doc,              \* the feedback nodes of the document, in document order
    console,          \* number of console.error entries
    uncaught,         \* number of exceptions that escaped a callback
    build             \* the run of build.sh: statuses of its commands, exit status

vars == << page, usernameValue, emailValue, passwordValue, confirmValue,
           usernameTimeout, timers, inflight, issued, responses, doc,
           console, uncaught, build >>

usernameVars == << usernameValue, usernameTimeout, timers, inflight, issued,
                   responses, console, uncaught >>
emailVars == << emailValue >>
passwordVars == << passwordValue, confirmValue >>

\* -------------------------------------------------------------- the document
\* document.getElementById: the index of the first node with that id, 0 for null
GetElementById(d, id) ==
    IF \E i \in 1..Len(d) : d[i].id = id
    THEN CHOOSE i \in 1..Len(d) :
            d[i].id = id /\ \A j \in 1..(i - 1) : d[j].id # id
    ELSE 0

\* createFeedbackElement: a new div, appended as last child of the input's parent
CreateFeedbackElement(d, inputElement, id) ==
    Append(d, [id |-> id, className |-> FeedbackClass, parent |-> inputElement,
               textContent |-> "", color |-> ""])

\* Mutant: the lookup by id is dropped and a node is created on every call.
ProvisionDoc_AlwaysCreates(d, inputElement, id) ==
    CreateFeedbackElement(d, inputElement, id)

\* document.getElementById(id) || createFeedbackElement(input, id):
\* the document afterwards
ProvisionDoc(d, inputElement, id) ==
    IF GetElementById(d, id) # 0 THEN d ELSE CreateFeedbackElement(d, inputElement, id)

\* ... and the node the expression evaluates to
ProvisionIdx(d, inputElement, id) ==
    IF GetElementById(d, id) # 0 THEN GetElementById(d, id) ELSE Len(d) + 1

SetText(d, i, text) == [d EXCEPT ![i].textContent = text]
SetColor(d, i, color) == [d EXCEPT ![i].color = color]
SetTextAndColor(d, i, text, color) == SetColor(SetText(d, i, text), i, color)

\* ---------------------------------------------------------------- build.sh
\* The commands of the script below "set -e", in the order of the file.
BuildScript ==
    << "echo Starting build process...",
       "echo Upgrading pip...",
       "pip install --upgrade pip",
       "echo Installing Python dependencies...",
       "pip install -r requirements.txt",
       "echo Installing Gunicorn...",
       "pip install gunicorn",
       "echo Build completed successfully!",
       "echo Ready for deployment to Render" >>

\* What a command can return: 0 is success, anything else a failure.
ExitStatuses == 0..MaxExitCode

\* build.exit while the script has not exited
Running == -1

\* The script before its first command
NotStarted == [ran |-> <<>>, exit |-> Running]

\* set -e is in force for the whole script
ExitsOnError_Unset == FALSE
ExitsOnError == TRUE

\* The shell after a command returned status: under set -e a failing command
\* ends the script with that status; after the last command the script ends
\* with the status of that command; otherwise the next command runs.
ExitAfter(ran, status) ==
    IF status # 0 /\ ExitsOnError THEN status
    ELSE IF Len(ran) = Len(BuildScript) THEN status
    ELSE Running

\* The next command of the script runs and returns status.
BuildCommand(status) ==
    /\ build.exit = Running
    /\ Len(build.ran) < Len(BuildScript)
    /\ LET ran == Append(build.ran, status)
       IN  build' = [ran |-> ran, exit |-> ExitAfter(ran, status)]
    /\ UNCHANGED << page, usernameValue, emailValue, passwordValue, confirmValue,
                    usernameTimeout, timers, inflight, issued, responses, doc,
                    console, uncaught >>

BuildNext == \E status \in ExitStatuses : BuildCommand(status)

\* ------------------------------------------------------------ initial state
Elements == {"username", "email", "password", "confirm_password", "csrf_token"}

\* Every page the script can be loaded into: any subset of the elements it
\* looks up may be missing.
Pages == [Elements -> BOOLEAN]

InitRest ==
    /\ usernameValue = <<>>
    /\ passwordValue = <<>>
    /\ confirmValue = <<>>
    /\ usernameTimeout = 0
    /\ timers = {}
    /\ inflight = <<>>
    /\ issued = 0
    /\ responses = <<>>
    /\ doc = <<>>
    /\ console = 0
    /\ uncaught = 0
    /\ build = NotStarted

Init ==
    /\ page \in Pages
    /\ emailValue = <<>>
    /\ InitRest

\* ---------------------------------------------------------- username watcher
\* if (usernameInput) { ... addEventListener('input', ...) }
UsernameWatcherAttached == page["username"]

\* Mutant: the listener forgets clearTimeout.
ClearTimeout_Missing(ts, id) == ts

\* clearTimeout(id): drops the active timer with that id, if there is one
ClearTimeout(ts, id) == {t \in ts : t.id # id}

\* Mutant: the length check precedes clearTimeout, so that a short value
\* returns before the pending timer is cleared.
TimersOnShortValue_CheckFirst(ts, handle) == ts

\* The active timers when the listener returns at the length check:
\* clearTimeout (line 9) has run before the check (line 12).
TimersOnShortValue(ts, handle) == ClearTimeout(ts, handle)

\* Mutant: the length check is off by one.
PassesLengthCheck_OffByOne(username) == ~(Len(username) < MinUsernameLen - 1)

\* if (username.length < 3) return;
PassesLengthCheck(username) == ~(Len(username) < MinUsernameLen)

\* Mutant: the value is not trimmed.
CapturedUsername_Untrimmed(value) == value

\* const username = this.value.trim();
CapturedUsername(value) == Trim(value)

\* setTimeout numbers the timers consecutively from 1, and the listener stores
\* every id it is handed in usernameTimeout
NextTimerId(handle) == handle + 1

\* Mutant: the listener aborts the fetches in flight.
InflightAfterInput_Aborts(fl) == <<>>

\* The listener keeps no handle on the fetches it started (no AbortController):
\* an input event leaves the fetches in flight as they are.
InflightAfterInput(fl) == fl

\* Mutant: the listener blanks the feedback of the previous check.
DocAfterInput_ClearsFeedback(d) ==
    [i \in 1..Len(d) |->
        IF d[i].id = UsernameFeedbackId
        THEN [d[i] EXCEPT !.textContent = "", !.color = ""]
        ELSE d[i]]

\* The listener does not look up the feedback node: the feedback of an
\* earlier check stays as it is while the user types.
DocAfterInput(d) == d

\* The 'input' listener of the username field, run on the new value v.
UsernameInput(v) ==
    /\ UsernameWatcherAttached
    /\ usernameValue' = v
    /\ LET cleared == ClearTimeout(timers, usernameTimeout)
           username == CapturedUsername(v)
       IN  IF ~PassesLengthCheck(username)
           THEN /\ timers' = TimersOnShortValue(timers, usernameTimeout)
                /\ UNCHANGED usernameTimeout
           ELSE /\ usernameTimeout < MaxTimerId
                /\ timers' = cleared \cup {[id |-> NextTimerId(usernameTimeout),
                                             username |-> username]}
                /\ usernameTimeout' = NextTimerId(usernameTimeout)
    /\ inflight' = InflightAfterInput(inflight)
    /\ doc' = DocAfterInput(doc)
    /\ UNCHANGED << build, page, emailValue, passwordValue, confirmValue,
                    issued, responses, console, uncaught >>

\* document.querySelector('[name=csrf_token]') is null when the field is
\* missing, and reading .value of null throws a TypeError
CsrfLookupThrows == ~page["csrf_token"]

\* Mutant: a username that is being queried is not queried again.
FetchCall_Deduplicates(fl, n, username) ==
    IF \E k \in 1..Len(fl) : fl[k].username = username
    THEN fl
    ELSE Append(fl, [seq |-> n, username |-> username])

\* fetch('/auth/check-username', {... body: JSON.stringify({username})}): the
\* n-th fetch joins the fetches in flight, whatever was asked before.
FetchCall(fl, n, username) == Append(fl, [seq |-> n, username |-> username])

\* The timer callback: builds the request (reading the token) and calls fetch.
\* The TypeError of a missing token field is raised while the argument of
\* fetch is evaluated: fetch is not called and nothing catches the error.
TimerFire(t) ==
    /\ t \in timers
    /\ timers' = timers \ {t}
    /\ IF CsrfLookupThrows
       THEN /\ uncaught < MaxUncaught
            /\ uncaught' = uncaught + 1
            /\ UNCHANGED << inflight, issued >>
       ELSE /\ issued < MaxRequests
            /\ issued' = issued + 1
            /\ inflight' = FetchCall(inflight, issued + 1, t.username)
            /\ UNCHANGED uncaught
    /\ UNCHANGED << build, page, usernameValue, emailValue, passwordValue, confirmValue,
                    usernameTimeout, responses, doc, console >>

\* What a fetch can deliver: a body {"available": true} or {"available": false},
\* a body that is no JSON (response.json() rejects), a transport failure (fetch
\* rejects).
DecodedOutcomes == {"true", "false"}
Outcomes == DecodedOutcomes \cup {"badjson", "neterr"}

\* if (data.available)
Truthy(outcome) == outcome = "true"

\* Mutant: the two colors are exchanged.
RenderAvailability_SwappedColors(d, i, outcome) ==
    IF Truthy(outcome)
    THEN SetTextAndColor(d, i, AvailableText, ErrorColor)
    ELSE SetTextAndColor(d, i, TakenText, SuccessColor)

\* The if/else of the response handler on the feedback node i.
RenderAvailability(d, i, outcome) ==
    IF Truthy(outcome)
    THEN SetTextAndColor(d, i, AvailableText, SuccessColor)
    ELSE SetTextAndColor(d, i, TakenText, ErrorColor)

\* Mutant: the handler renders only into a node it has just created, so the
\* first response wins.
ThenHandlerDoc_FirstWins(d, outcome) ==
    IF GetElementById(d, UsernameFeedbackId) # 0
    THEN d
    ELSE RenderAvailability(CreateFeedbackElement(d, "username", UsernameFeedbackId),
                            Len(d) + 1, outcome)

\* .then(data => { ... }): the document after the handler ran on a decoded body.
ThenHandlerDoc(d, outcome) ==
    LET d1 == ProvisionDoc(d, "username", UsernameFeedbackId)
        i == ProvisionIdx(d, "username", UsernameFeedbackId)
    IN  RenderAvailability(d1, i, outcome)

\* Mutant: a failure is rendered like a username that is taken.
CatchHandlerDoc_RendersTaken(d) == ThenHandlerDoc(d, "false")

\* .catch(error => console.error('Error:', error)): the document is not touched
CatchHandlerDoc(d) == d

\* A rejection of fetch or of response.json() skips the .then handler and ends
\* in the .catch
ReachesCatch(outcome) == outcome \in {"badjson", "neterr"}

\* A decoded body runs the .then(data => ...) handler
ReachesThen(outcome) == outcome \in DecodedOutcomes

\* The promise chain of the k-th fetch in flight settles with the outcome.
Respond(k, outcome) ==
    /\ k \in 1..Len(inflight)
    /\ inflight' = SubSeq(inflight, 1, k - 1) \o SubSeq(inflight, k + 1, Len(inflight))
    /\ responses' = Append(responses, [seq |-> inflight[k].seq, outcome |-> outcome])
    /\ doc' = LET d1 == IF ReachesThen(outcome) THEN ThenHandlerDoc(doc, outcome) ELSE doc
              IN  IF ReachesCatch(outcome) THEN CatchHandlerDoc(d1) ELSE d1
    /\ console' = IF ReachesCatch(outcome) THEN console + 1 ELSE console
    /\ UNCHANGED << build, page, usernameValue, emailValue, passwordValue, confirmValue,
                    usernameTimeout, timers, issued, uncaught >>

UsernameNext ==
    \/ \E v \in UsernameInputs : UsernameInput(v)
    \/ \E t \in timers : TimerFire(t)
    \/ \E k \in 1..MaxRequests, o \in Outcomes : Respond(k, o)

\* ------------------------------------------------------------- email watcher
\* if (emailInput) { emailInput.addEventListener('blur', ...) }
EmailWatcherAttached == page["email"]

\* The character classes of /^[^\s@]+@[^\s@]+\.[^\s@]+$/
InClass(c, class) ==
    CASE class = "local" -> c \notin Whitespace \cup {"@"}
      [] class = "at" -> c = "@"
      [] class = "dot" -> c = "."

\* The regular expression, as the sequence of its items between ^ and $
EmailRegex ==
    << [class |-> "local", plus |-> TRUE],
       [class |-> "at", plus |-> FALSE],
       [class |-> "local", plus |-> TRUE],
       [class |-> "dot", plus |-> FALSE],
       [class |-> "local", plus |-> TRUE] >>

\* Backtracking match of the items p.. of the regular expression against the
\* characters i.. of s; the end of the items must meet the end of s ($).
RECURSIVE MatchFrom(_, _, _, _)
MatchFrom(re, p, s, i) ==
    IF p > Len(re) THEN i > Len(s)
    ELSE IF i > Len(s) THEN FALSE
    ELSE IF ~InClass(s[i], re[p].class) THEN FALSE
    ELSE \/ MatchFrom(re, p + 1, s, i + 1)
         \/ re[p].plus /\ MatchFrom(re, p, s, i + 1)

\* Mutant: the expression lacks the dot and what follows it: /^[^\s@]+@[^\s@]+$/
EmailRegexTest_NoDot(email) == MatchFrom(SubSeq(EmailRegex, 1, 3), 1, email, 1)

\* emailRegex.test(email)
EmailRegexTest(email) == MatchFrom(EmailRegex, 1, email, 1)

\* Mutant: the blur listener was copied from the username handler and still
\* looks up 'username-feedback'.
EmailBlurDoc_WrongFeedbackId(d, value) ==
    LET email == Trim(value)
        d1 == ProvisionDoc(d, "email", UsernameFeedbackId)
        i == ProvisionIdx(d, "email", UsernameFeedbackId)
    IN  IF ~EmailRegexTest(email)
        THEN SetTextAndColor(d1, i, InvalidEmailText, ErrorColor)
        ELSE SetText(d1, i, "")

\* The body of the blur listener: the document afterwards.
EmailBlurDoc(d, value) ==
    LET email == Trim(value)
        d1 == ProvisionDoc(d, "email", EmailFeedbackId)
        i == ProvisionIdx(d, "email", EmailFeedbackId)
    IN  IF ~EmailRegexTest(email)
        THEN SetTextAndColor(d1, i, InvalidEmailText, ErrorColor)
        ELSE SetText(d1, i, "")

\* The user edits the email field: no listener runs.
EmailInput(v) ==
    /\ page["email"]
    /\ emailValue' = v
    /\ UNCHANGED << build, page, usernameValue, passwordValue, confirmValue,
                    usernameTimeout, timers, inflight, issued, responses, doc,
                    console, uncaught >>

\* The 'blur' listener of the email field.
EmailBlur ==
    /\ EmailWatcherAttached
    /\ doc' = EmailBlurDoc(doc, emailValue)
    /\ UNCHANGED << build, page, usernameValue, emailValue, passwordValue, confirmValue,
                    usernameTimeout, timers, inflight, issued, responses,
                    console, uncaught >>

EmailNext ==
    \/ \E v \in TypedEmails : EmailInput(v)
    \/ EmailBlur

\* ---------------------------------------------------------- password watcher
\* if (passwordInput && confirmPasswordInput) { ... addEventListener('input', ...) }
PasswordWatcherAttached == page["password"] /\ page["confirm_password"]

\* Mutant: the two values are compared by length only.
ConfirmInputDoc_ComparesLength(d, confirm, password) ==
    LET d1 == ProvisionDoc(d, "confirm_password", ConfirmFeedbackId)
        i == ProvisionIdx(d, "confirm_password", ConfirmFeedbackId)
    IN  IF Len(confirm) # Len(password)
        THEN SetTextAndColor(d1, i, NoMatchText, ErrorColor)
        ELSE SetTextAndColor(d1, i, MatchText, SuccessColor)

\* The body of the input listener of the confirmation field.
ConfirmInputDoc(d, confirm, password) ==
    LET d1 == ProvisionDoc(d, "confirm_password", ConfirmFeedbackId)
        i == ProvisionIdx(d, "confirm_password", ConfirmFeedbackId)
    IN  IF confirm # password
        THEN SetTextAndColor(d1, i, NoMatchText, ErrorColor)
        ELSE SetTextAndColor(d1, i, MatchText, SuccessColor)

\* Mutant: the comparison is also made when the primary field is edited.
PasswordInputDoc_Recomputes(d, confirm, password) ==
    IF PasswordWatcherAttached THEN ConfirmInputDoc(d, confirm, password) ELSE d

\* The script attaches no listener to the primary password field: an edit of
\* it leaves the document as it is.
PasswordInputDoc(d, confirm, password) == d

\* The user edits the primary password field: no listener runs.
PasswordInput(v) ==
    /\ page["password"]
    /\ passwordValue' = v
    /\ doc' = PasswordInputDoc(doc, confirmValue, v)
    /\ UNCHANGED << build, page, usernameValue, emailValue, confirmValue, usernameTimeout,
                    timers, inflight, issued, responses, console, uncaught >>

\* The user edits the confirmation field: the listener runs if it was attached.
ConfirmInput(v) ==
    /\ page["confirm_password"]
    /\ confirmValue' = v
    /\ doc' = IF PasswordWatcherAttached
              THEN ConfirmInputDoc(doc, v, passwordValue)
              ELSE doc
    /\ UNCHANGED << build, page, usernameValue, emailValue, passwordValue, usernameTimeout,
                    timers, inflight, issued, responses, console, uncaught >>

PasswordNext ==
    \/ \E v \in PwInputs : PasswordInput(v)
    \/ \E v \in PwInputs : ConfirmInput(v)

\* ----------------------------------------------------------- specifications
Next ==
    \/ \E v \in TypedUsernames : UsernameInput(v)
    \/ \E t \in timers : TimerFire(t)
    \/ \E k \in 1..MaxRequests, o \in Outcomes : Respond(k, o)
    \/ \E v \in TypedEmails : EmailInput(v)
    \/ EmailBlur
    \/ \E v \in TypedPasswords : PasswordInput(v)
    \/ \E v \in TypedPasswords : ConfirmInput(v)

Spec == Init /\ [][Next]_vars

\* The username watcher alone, every value up to MaxLen typed, on the pages
\* that differ in what this watcher looks up.
UsernamePages ==
    {pg \in Pages : \A e \in Elements \ {"username", "csrf_token"} : pg[e]}

InitUsername ==
    /\ page \in UsernamePages
    /\ emailValue = <<>>
    /\ InitRest

SpecUsername == InitUsername /\ [][UsernameNext]_vars

\* The email watcher alone: the page is loaded with any value up to
\* MaxEmailLen in the email field (a value the server rendered or the browser
\* restored), with or without the field.
EmailPages == {pg \in Pages : \A e \in Elements \ {"email"} : pg[e]}

InitEmail ==
    /\ page \in EmailPages
    /\ emailValue \in EmailStrings
    /\ InitRest

SpecEmail == InitEmail /\ [][EmailNext]_vars

\* The password watcher alone, every value up to MaxPwLen typed, on the pages
\* that differ in what this watcher looks up.
PasswordPages ==
    {pg \in Pages : \A e \in Elements \ {"password", "confirm_password"} : pg[e]}

InitPassword ==
    /\ page \in PasswordPages
    /\ emailValue = <<>>
    /\ InitRest

SpecPassword == InitPassword /\ [][PasswordNext]_vars

\* The build script alone: it runs at deployment, before any page is served.
InitBuild ==
    /\ page = [e \in Elements |-> FALSE]
    /\ emailValue = <<>>
    /\ InitRest

SpecBuild == InitBuild /\ [][BuildNext]_vars

\* ---------------------------------------------------------------- shorthands
\* The feedback node of an id: the set of its positions in the document
NodesWithId(d, id) == {i \in 1..Len(d) : d[i].id = id}

\* This step is an input event on the username field (which leaves the
\* field with the value the listener ran on)
UsernameInputStep == UsernameInput(usernameValue')

\* The expiry of some timer is this step
TimerFireStep == \E t \in timers : TimerFire(t)

\* ------------------------------------------------------------------- claims

\* C1: an input event on the username field whose trimmed value has fewer
\* than 3 characters schedules no timer, and every timer pending and every
\* request sent carries a username whose trimmed length is at least 3.
C1_ShortInputIssuesNoRequest ==
    /\ [](/\ \A t \in timers : Len(Trim(t.username)) >= 3
          /\ \A k \in 1..Len(inflight) : Len(Trim(inflight[k].username)) >= 3)
    /\ [][(Len(Trim(usernameValue')) < 3 /\ UsernameInputStep)
            => (timers' \subseteq timers /\ inflight' = inflight
                /\ issued' = issued)]_vars

\* C1 witness: the field holds a value of three characters whose trimmed
\* length is below 3, after a request for a longer value went out: no timer
\* is pending and no second request was sent.
C1_Witness ==
    /\ Len(usernameValue) >= 3
    /\ Len(Trim(usernameValue)) < 3
    /\ timers = {}
    /\ issued = 1
    /\ Len(inflight) = 1

\* C2: trailing-edge debounce. An input event never issues a request itself
\* and leaves at most one timer pending, the one for its own trimmed value;
\* the expiry of a timer issues exactly one request, which carries the
\* trimmed value of the last input event, and leaves no timer pending, so
\* that a burst of input events ends in one request for its last value.
C2_TrailingEdgeDebounce ==
    [][/\ (TimerFireStep /\ ~CsrfLookupThrows)
            => /\ issued' = issued + 1
               /\ inflight' = Append(inflight, [seq |-> issued + 1,
                                                username |-> Trim(usernameValue)])
               /\ timers' = {}
       /\ UsernameInputStep
            => /\ inflight' = inflight
               /\ issued' = issued
               /\ Cardinality(timers') <= 1
               /\ \A t \in timers' : /\ t.username = Trim(usernameValue')
                                     /\ t.id = usernameTimeout']_vars

\* C2 witness: two timers were scheduled and exactly one expired; the one
\* request sent carries the trimmed value of the field.
C2_Witness ==
    /\ usernameTimeout = 2
    /\ timers = {}
    /\ issued = 1
    /\ uncaught = 0
    /\ Len(inflight) = 1
    /\ Len(Trim(usernameValue)) >= 3
    /\ inflight[1].username = Trim(usernameValue)

\* C3 as stated: an input event with a trimmed value of length < 3 leaves a
\* pending timer pending.
C3_PendingTimerSurvivesShortInput ==
    [][(timers # {} /\ Len(Trim(usernameValue')) < 3 /\ UsernameInputStep)
            => timers \subseteq timers']_vars

\* C3 amended: an input event with a trimmed value of length < 3 cancels the
\* pending timer (clearTimeout runs before the length check) and schedules
\* none; the requests in flight are left alone.
C3_ShortInputCancelsPendingTimer ==
    [][(Len(Trim(usernameValue')) < 3 /\ UsernameInputStep)
            => /\ timers' = {}
               /\ usernameTimeout' = usernameTimeout
               /\ inflight' = inflight]_vars

\* C3 witness: one timer was scheduled, it never expired, and the field now
\* holds a short value with no timer pending.
C3_Witness ==
    /\ usernameTimeout = 1
    /\ timers = {}
    /\ issued = 0
    /\ uncaught = 0
    /\ Len(Trim(usernameValue)) < 3

\* C4: at most one debounce timer is outstanding, and it is the one whose id
\* usernameTimeout holds.
C4_AtMostOneTimer ==
    /\ Cardinality(timers) <= 1
    /\ \A t \in timers : t.id = usernameTimeout

\* C4 witness: a timer is pending that replaced an earlier one which never
\* expired.
C4_Witness ==
    /\ Cardinality(timers) = 1
    /\ usernameTimeout >= 2
    /\ issued = 0
    /\ uncaught = 0

\* The ids of the feedback nodes and the input each belongs to
FeedbackIds == {UsernameFeedbackId, EmailFeedbackId, ConfirmFeedbackId}

InputOf(id) ==
    CASE id = UsernameFeedbackId -> "username"
      [] id = EmailFeedbackId -> "email"
      [] id = ConfirmFeedbackId -> "confirm_password"

\* The document holds a node of that id, and every such node shows the text
\* in the color
FeedbackShows(d, id, text, color) ==
    /\ NodesWithId(d, id) # {}
    /\ \A i \in NodesWithId(d, id) : d[i].textContent = text /\ d[i].color = color

\* C5: the document holds at most one feedback node per id, each of class
\* 'form-text' under the parent of its input; a node is only ever added as
\* the last one, for an id that no node has yet, and the nodes before it are
\* kept.
C5_OneFeedbackNodePerId ==
    /\ [](/\ \A id \in FeedbackIds : Cardinality(NodesWithId(doc, id)) <= 1
          /\ \A i \in 1..Len(doc) : /\ doc[i].id \in FeedbackIds
                                    /\ doc[i].className = "form-text"
                                    /\ doc[i].parent = InputOf(doc[i].id))
    /\ [][Len(doc') # Len(doc)
            => /\ Len(doc') = Len(doc) + 1
               /\ NodesWithId(doc, doc'[Len(doc')].id) = {}
               /\ SubSeq(doc', 1, Len(doc)) = doc]_vars

\* C5 witness: the three feedback nodes exist, and the email node has been
\* written twice (an error, then cleared, which leaves the error color).
C5_Witness ==
    /\ Len(doc) = 3
    /\ FeedbackShows(doc, EmailFeedbackId, "", "#dc3545")
    /\ NodesWithId(doc, UsernameFeedbackId) # {}
    /\ NodesWithId(doc, ConfirmFeedbackId) # {}

\* C6: a request that fails in transport or whose body is no JSON leaves the
\* document as it is, adds one console entry, and issues and schedules
\* nothing.
C6_FailureLeavesFeedbackAlone ==
    [][(\E k \in 1..Len(inflight), o \in {"badjson", "neterr"} : Respond(k, o))
            => /\ doc' = doc
               /\ console' = console + 1
               /\ issued' = issued
               /\ Len(inflight') = Len(inflight) - 1
               /\ timers' = timers
               /\ uncaught' = uncaught]_vars

\* C6 witness: a failure arrived after a decoded response, and the feedback
\* still shows what the decoded response wrote.
C6_Witness ==
    /\ Len(responses) = 2
    /\ responses[1].outcome = "true"
    /\ responses[2].outcome \in {"badjson", "neterr"}
    /\ console = 1
    /\ FeedbackShows(doc, UsernameFeedbackId, "Username is available", "#198754")

\* C7 as stated: on a page without the csrf_token field or without the
\* username input no callback of the username watcher ends in a thrown
\* failure and no request is issued; without both password inputs the
\* confirmation feedback is never written.
C7_MissingElementsAreSilent ==
    /\ (~page["csrf_token"] \/ ~page["username"])
            => (uncaught = 0 /\ issued = 0)
    /\ (~page["password"] \/ ~page["confirm_password"])
            => NodesWithId(doc, ConfirmFeedbackId) = {}

\* The last response that decoded, 0 if none did
LastDecoded ==
    LET S == {n \in 1..Len(responses) : responses[n].outcome \in {"true", "false"}}
    IN  IF S = {} THEN 0 ELSE CHOOSE n \in S : \A m \in S : m <= n

\* C8: the username feedback shows the result of the decoded response that
\* arrived last, whatever the order in which the requests were issued.
C8_LastArrivalWins ==
    LastDecoded # 0
        => IF responses[LastDecoded].outcome = "true"
           THEN FeedbackShows(doc, UsernameFeedbackId, "Username is available", "#198754")
           ELSE FeedbackShows(doc, UsernameFeedbackId, "Username is already taken", "#dc3545")

\* C8 witness: two requests were in flight at once, the second was answered
\* first ("taken") and the first last ("available"): the feedback shows the
\* result of the first request.
C8_Witness ==
    /\ issued = 2
    /\ inflight = <<>>
    /\ responses = << [seq |-> 2, outcome |-> "false"], [seq |-> 1, outcome |-> "true"] >>
    /\ FeedbackShows(doc, UsernameFeedbackId, "Username is available", "#198754")

\* C9: a response with available true sets the feedback to 'Username is
\* available' in #198754, one with available false to 'Username is already
\* taken' in #dc3545, and the feedback never shows another pair of text and
\* color.
C9_TextAndColorTogether ==
    /\ [](\A i \in NodesWithId(doc, UsernameFeedbackId) :
            << doc[i].textContent, doc[i].color >> \in
                { << "Username is available", "#198754" >>,
                  << "Username is already taken", "#dc3545" >> })
    /\ [][\A k \in 1..Len(inflight) :
            /\ Respond(k, "true")
                 => FeedbackShows(doc', UsernameFeedbackId, "Username is available", "#198754")
            /\ Respond(k, "false")
                 => FeedbackShows(doc', UsernameFeedbackId, "Username is already taken", "#dc3545")]_vars

\* C9 witness: the feedback went from available to taken.
C9_Witness ==
    /\ Len(responses) = 2
    /\ responses[1].outcome = "true"
    /\ responses[2].outcome = "false"
    /\ FeedbackShows(doc, UsernameFeedbackId, "Username is already taken", "#dc3545")

\* The pattern in words: some '@' and some later '.' split s into three
\* non-empty parts, and no other character is whitespace or '@'.
PatternMatches(s) ==
    \E i, j \in 1..Len(s) :
        /\ 1 < i /\ i + 1 < j /\ j < Len(s)
        /\ s[i] = "@"
        /\ s[j] = "."
        /\ \A k \in (1..Len(s)) \ {i, j} : s[k] \notin {" ", "@"}

\* C10: a blur of the email input leaves the email feedback with the error
\* text in the error color exactly when the trimmed value does not match the
\* pattern, and with the empty text exactly when it matches; it issues no
\* request and schedules nothing.
C10_EmailBlurFeedback ==
    [][EmailBlur
        => LET matches == PatternMatches(Trim(emailValue))
               shown == {doc'[i].textContent : i \in NodesWithId(doc', EmailFeedbackId)}
           IN  /\ Cardinality(shown) = 1
               /\ matches <=> shown = {""}
               /\ ~matches <=> FeedbackShows(doc', EmailFeedbackId,
                                             "Please enter a valid email address", "#dc3545")
               /\ inflight' = inflight
               /\ issued' = issued
               /\ timers' = timers]_vars

\* C10 witness: a value that matches only once it is trimmed was accepted
\* after another value had been rejected (the text is empty, the color is
\* left from the error).
C10_Witness ==
    /\ emailValue # Trim(emailValue)
    /\ PatternMatches(Trim(emailValue))
    /\ FeedbackShows(doc, EmailFeedbackId, "", "#dc3545")

\* This step is an input event on the confirmation field
ConfirmInputStep == ConfirmInput(confirmValue')

\* C11: when both password inputs exist, an input event on the confirmation
\* field leaves the confirmation feedback at 'Passwords match' in #198754
\* exactly when the confirmation value equals the password value, and at
\* 'Passwords do not match' in #dc3545 otherwise.
C11_ConfirmFeedback ==
    [][(ConfirmInputStep /\ page["password"] /\ page["confirm_password"])
        => /\ (confirmValue' = passwordValue')
                <=> FeedbackShows(doc', ConfirmFeedbackId, "Passwords match", "#198754")
           /\ (confirmValue' # passwordValue')
                <=> FeedbackShows(doc', ConfirmFeedbackId,
                                  "Passwords do not match", "#dc3545")]_vars

\* C11 witness: both values are empty after the confirmation field was
\* edited back to empty, and the feedback reads 'Passwords match'.
C11_Witness ==
    /\ passwordValue = <<>>
    /\ confirmValue = <<>>
    /\ FeedbackShows(doc, ConfirmFeedbackId, "Passwords match", "#198754")

\* C12: no caching. The expiry of a timer adds one request for the timer's
\* username to the requests in flight, also when a request for the same
\* username is in flight already.
C12_NoCaching ==
    [][(TimerFireStep /\ ~CsrfLookupThrows)
        => \A t \in timers \ timers' :
              /\ Len(inflight') = Len(inflight) + 1
              /\ SubSeq(inflight', 1, Len(inflight)) = inflight
              /\ inflight'[Len(inflight')].username = t.username]_vars

\* C12 witness: two requests for the same username are in flight.
C12_Witness ==
    /\ Len(inflight) = 2
    /\ inflight[1].username = inflight[2].username
    /\ inflight[1].seq # inflight[2].seq

\* C13: a request in flight stays in flight over every step but the arrival
\* of its own response, input events included, and a decoded response is
\* written to the feedback when it arrives.
C13_RequestsNeverCancelled ==
    [][/\ UsernameInputStep => inflight' = inflight
       /\ \A k \in 1..Len(inflight) :
            \/ \E j \in 1..Len(inflight') : inflight'[j] = inflight[k]
            \/ /\ Len(responses') = Len(responses) + 1
               /\ responses'[Len(responses')].seq = inflight[k].seq
               /\ responses'[Len(responses')].outcome = "true"
                    => FeedbackShows(doc', UsernameFeedbackId,
                                     "Username is available", "#198754")
               /\ responses'[Len(responses')].outcome = "false"
                    => FeedbackShows(doc', UsernameFeedbackId,
                                     "Username is already taken", "#dc3545")]_vars

\* C13 witness: the field was shortened below 3 characters while a request
\* was in flight, and the request is still in flight.
C13_Witness ==
    /\ Len(Trim(usernameValue)) < 3
    /\ usernameValue # <<>>
    /\ Len(inflight) = 1
    /\ issued = 1
    /\ timers = {}

\* The feedback node(s) of an id, as records
FeedbackNodes(d, id) == {d[i] : i \in NodesWithId(d, id)}

\* The steps of each watcher
UsernameWatcherStep ==
    \/ UsernameInputStep
    \/ TimerFireStep
    \/ /\ Len(responses') = Len(responses) + 1
       /\ \E k \in 1..Len(inflight) : Respond(k, responses'[Len(responses')].outcome)
EmailWatcherStep == EmailInput(emailValue') \/ EmailBlur
PasswordWatcherStep == PasswordInput(passwordValue') \/ ConfirmInputStep

\* What belongs to each watcher has changed in this step
UsernameStateChanged ==
    \/ << usernameValue, usernameTimeout, timers, inflight, issued, responses,
          console, uncaught >>' #
       << usernameValue, usernameTimeout, timers, inflight, issued, responses,
          console, uncaught >>
    \/ (doc' # doc /\ FeedbackNodes(doc', UsernameFeedbackId) # FeedbackNodes(doc, UsernameFeedbackId))
EmailStateChanged ==
    \/ emailValue' # emailValue
    \/ (doc' # doc /\ FeedbackNodes(doc', EmailFeedbackId) # FeedbackNodes(doc, EmailFeedbackId))
PasswordStateChanged ==
    \/ << passwordValue, confirmValue >>' # << passwordValue, confirmValue >>
    \/ (doc' # doc /\ FeedbackNodes(doc', ConfirmFeedbackId) # FeedbackNodes(doc, ConfirmFeedbackId))

\* C14: the watchers are independent. The values, the timer, the requests
\* and the feedback node of a watcher change only in the steps of that
\* watcher: an event handled by one watcher leaves the other two as they are.
C14_WatchersIndependent ==
    [][LET u == UsernameStateChanged
           e == EmailStateChanged
           p == PasswordStateChanged
       IN  /\ u => (UsernameWatcherStep /\ ~e /\ ~p)
           /\ e => (EmailWatcherStep /\ ~u /\ ~p)
           /\ p => (PasswordWatcherStep /\ ~u /\ ~e)]_vars

\* C14 witness: the three watchers have each written their feedback, while
\* a second request is in flight.
C14_Witness ==
    /\ FeedbackShows(doc, UsernameFeedbackId, "Username is already taken", "#dc3545")
    /\ FeedbackShows(doc, EmailFeedbackId, "Please enter a valid email address", "#dc3545")
    /\ FeedbackShows(doc, ConfirmFeedbackId, "Passwords match", "#198754")
    /\ inflight # <<>>

\* The three steps of the build, by their place in the script
StepIndex(cmd) == CHOOSE i \in 1..Len(BuildScript) : BuildScript[i] = cmd
UpgradePip == StepIndex("pip install --upgrade pip")
InstallRequirements == StepIndex("pip install -r requirements.txt")
InstallGunicorn == StepIndex("pip install gunicorn")
CompletedMessage == StepIndex("echo Build completed successfully!")
BuildSteps == {UpgradePip, InstallRequirements, InstallGunicorn}

\* C15: the build script runs its three steps in order (upgrade pip, install
\* requirements.txt, install gunicorn) and stops at the first failing step
\* with a non-zero exit: a command that failed is the last one that ran and
\* its status is the exit status of the script, and the "Build completed
\* successfully" message has run only if all three steps returned 0.
C15_BuildStopsAtFirstFailure ==
    /\ UpgradePip < InstallRequirements
    /\ InstallRequirements < InstallGunicorn
    /\ InstallGunicorn < CompletedMessage
    /\ \A i \in 1..Len(build.ran) :
          build.ran[i] # 0
             => /\ i = Len(build.ran)
                /\ build.exit = build.ran[i]
                /\ build.exit # 0
    /\ Len(build.ran) >= CompletedMessage
          => \A i \in BuildSteps : build.ran[i] = 0
    /\ build.exit = 0
          => /\ Len(build.ran) = Len(BuildScript)
             /\ \A i \in BuildSteps : build.ran[i] = 0

\* C15 witness: pip was upgraded, the installation of requirements.txt
\* failed, and the script has exited with that status before gunicorn.
C15_Witness ==
    /\ Len(build.ran) = InstallRequirements
    /\ build.ran[UpgradePip] = 0
    /\ build.ran[InstallRequirements] = 2
    /\ build.exit = 2

\* C16: whenever a debounce timer is pending, the username it captured has
\* trimmed length >= 3 and is the trimmed current value of the username
\* field; hence the request issued when a timer fires carries the trimmed
\* value the field holds at that moment.
C16_PendingTimerHoldsTrimmedValue ==
    /\ [](\A t \in timers : /\ Len(Trim(t.username)) >= 3
                            /\ t.username = Trim(usernameValue))
    /\ [][TimerFireStep
            => \A k \in 1..Len(inflight') :
                  k > Len(inflight)
                     => inflight'[k].username = Trim(usernameValue)]_vars

\* C16 witness: a request is in flight that a timer issued for a field value
\* with surrounding whitespace; it carries the trimmed value, and the field
\* still holds what was typed.
C16_Witness ==
    /\ usernameValue # Trim(usernameValue)
    /\ Len(inflight) = 1
    /\ inflight[1].username = Trim(usernameValue)
    /\ timers = {}
    /\ usernameTimeout = 1

\* A decoded response arrives in this step
DecodedArrivalStep ==
    /\ Len(responses') = Len(responses) + 1
    /\ responses'[Len(responses')].outcome \in DecodedOutcomes
    /\ \E k \in 1..Len(inflight) :
          Respond(k, responses'[Len(responses')].outcome)

\* C17: the username feedback is changed only by the arrival of a decoded
\* response. An input event on the username field and the expiry of a timer
\* leave the document as it is, and so does a response that fails.
C17_FeedbackChangesOnlyOnArrival ==
    [][/\ doc' # doc => DecodedArrivalStep
       /\ UsernameInputStep => doc' = doc
       /\ TimerFireStep => doc' = doc]_vars

\* C17 witness: the feedback reads "Username is available" while the field
\* holds a value whose trimmed length is below 3, for which no check is made.
C17_Witness ==
    /\ FeedbackShows(doc, UsernameFeedbackId, "Username is available", "#198754")
    /\ Len(Trim(usernameValue)) < 3
    /\ inflight = <<>>
    /\ timers = {}

\* C18: the confirmation feedback is recomputed only on input events of the
\* confirmation field. The document changes only in such a step, and an edit
\* of the primary password field leaves it unchanged.
C18_FeedbackRecomputedOnConfirmInputOnly ==
    [][/\ doc' # doc => ConfirmInputStep
       /\ PasswordInput(passwordValue') => doc' = doc]_vars

\* C18 witness: the feedback reads "Passwords match" while the two values
\* differ, the primary field having been edited after the confirmation.
C18_Witness ==
    /\ FeedbackShows(doc, ConfirmFeedbackId, "Passwords match", "#198754")
    /\ passwordValue # confirmValue
    /\ confirmValue # <<>>

====
